---- MODULE Spec2Model ----
(***************************************************************************)
(* Frame-by-frame model of the stimulus presentation paradigms of          *)
(* src/main.py (SentenceParadigm, per character) and src/main_en.py        *)
(* (SentenceParadigm per word, ReadingParadigm, ListeningParadigm).        *)
(*                                                                         *)
(* Time is an integer count of quarter seconds: the literal 0.5 s of the   *)
(* source is 2.  One step of a phase action is one evaluation of the loop  *)
(* condition followed by either one whole loop body (poll, update, draw,   *)
(* flip, clock.tick) or the code that runs from the loop's exit up to the  *)
(* head of the next loop.  The time a frame takes is chosen by the         *)
(* environment in 1..MaxFrame (clock.tick(60) only gives a lower bound).   *)
(***************************************************************************)
EXTENDS Integers, Sequences, FiniteSets, TLC

\* ---------------------------------------------------------------- bounds
MaxItems == 2      \* longest stimulus list
MaxWords == 2      \* most words (main.py: characters) in one sentence
MaxFrame == 3      \* longest time one frame may take
MaxQueue == 1      \* most events waiting in the pygame event queue
MaxClip  == 2      \* the mixer ends every clip before it has played longer
MaxLines == 2      \* most lines in a stimulus file
MaxAudioFiles == 2 \* most audio files in the audio folder
MaxRepetitions == 3 \* largest repetitions argument

\* ------------------------------------------------------ program constants
HoldTime   == 2    \* "while time.time() - hold_start < 0.5" / time.sleep(0.5)
BlackTime  == 2    \* "while time.time() - black_start < 0.5" / time.sleep(0.5)
total_dots == 3    \* total_dots = 3

\* A clock that stands still: no frame takes any time.
FrameTimes_frozen == {0}

\* clock.tick(60): a frame takes at least a sixtieth of a second
FrameTimes == 1..MaxFrame

Min(a, b) == IF a < b THEN a ELSE b
Max(a, b) == IF a > b THEN a ELSE b

\* ------------------------------------------------------------ the events
QUIT            == "QUIT"
K_ESCAPE        == "K_ESCAPE"          \* KEYDOWN with key == K_ESCAPE
MOUSEBUTTONDOWN == "MOUSEBUTTONDOWN"
K_OTHER         == "K_OTHER"           \* KEYDOWN with any other key
Events == {QUIT, K_ESCAPE, MOUSEBUTTONDOWN, K_OTHER}

\* Loops that let a pointer click pass in both files.
ExitEvents_keys_only(file) == {QUIT, K_ESCAPE}

\* Loops that return on any event at all.
ExitEvents_any_event(file) == Events

\* The event types a frame loop of the given file returns on.
ExitEvents(file) ==
  IF file = "main" THEN {QUIT, K_ESCAPE}
                   ELSE {QUIT, K_ESCAPE, MOUSEBUTTONDOWN}

\* for event in pygame.event.get(): ... return False
PollAborts(file, q) == \E k \in 1..Len(q) : q[k] \in ExitEvents(file)

\* random.uniform(a, b): any value between the two ends, whichever is lower
Uniform(a, b) == Min(a, b)..Max(a, b)

\* --------------------------------------------------------- configurations
PrepModes == {"square", "dots", "other"}    \* prep_mode is not validated
PlayModes == {"green", "progress", "other"} \* play_mode is not validated
Intervals == {1, 2, 3}                      \* 0.25 s, 0.5 s, 0.75 s

ItemLists == UNION {[1..n -> 1..MaxWords] : n \in 0..MaxItems}

\* progress_duration is only used when play_mode = 'progress'
ProgressDurations(play_mode) == IF play_mode = "progress" THEN {0, 2} ELSE {2}

WordDurations == {0, 1}

SentenceParadigm(file, items, prep_mode, play_mode, progress_duration, interval) ==
  [file |-> file, cls |-> "Sentence", items |-> items,
   char_speed |-> 2, prep_time |-> 1, prep_time_jitter |-> 1,
   jitter_mean |-> 1, jitter_std |-> 0,
   prep_mode |-> prep_mode, dot_interval |-> 2, play_mode |-> play_mode,
   progress_duration |-> progress_duration, progress_pause |-> 1,
   word_duration |-> 0, interval |-> interval]

\* jitter_mean, jitter_std: the fields word_jitter_mean, word_jitter_std
ReadingParadigm(items, word_duration, interval) ==
  [file |-> "main_en", cls |-> "Reading", items |-> items,
   char_speed |-> 0, prep_time |-> 1, prep_time_jitter |-> 2,
   jitter_mean |-> 1, jitter_std |-> 1,
   prep_mode |-> "square", dot_interval |-> 0, play_mode |-> "green",
   progress_duration |-> 0, progress_pause |-> 0,
   word_duration |-> word_duration, interval |-> interval]

ListeningParadigm(items, interval) ==
  [file |-> "main_en", cls |-> "Listening", items |-> items,
   char_speed |-> 0, prep_time |-> 1, prep_time_jitter |-> 1,
   jitter_mean |-> 1, jitter_std |-> 0,
   prep_mode |-> "square", dot_interval |-> 0, play_mode |-> "green",
   progress_duration |-> 0, progress_pause |-> 0,
   word_duration |-> 0, interval |-> interval]

Paradigms ==
  UNION {{SentenceParadigm(f, it, pm, pl, pd, iv) :
             f \in {"main", "main_en"}, it \in ItemLists,
             pm \in PrepModes, pd \in ProgressDurations(pl),
             iv \in Intervals} : pl \in PlayModes}
  \cup {ReadingParadigm([k \in 1..n |-> 1], wd, iv) :
      n \in 0..MaxItems, wd \in WordDurations, iv \in Intervals}
  \cup {ListeningParadigm([k \in 1..n |-> 1], iv) :
      n \in 0..MaxItems, iv \in Intervals}

\* ------------------------------------------------------------- the state
VARIABLES
  self,         \* the paradigm object: the fields __init__ sets
  pc,           \* the loop run() is executing
  i,            \* iterations of run()'s for loop taken so far (trial id)
  elapsed,      \* time.time() - start_time of the current loop
  queue,        \* pygame's event queue
  loc,          \* local variables of the trial controller
  screen,       \* the frame last presented by pygame.display.flip()
  busy,         \* pygame.mixer.music.get_busy()
  exc,          \* an exception is propagating out of run()
  aborted,      \* a poll has returned on an exit event
  quits,        \* calls of pygame.quit()
  mixer_quits,  \* calls of pygame.mixer.quit()
  saved,        \* times a record collection was written
  records,      \* the trial records collected so far
  phases,       \* phases the current trial has entered, in order
  started,      \* items handed to the trial controller, in order
  results,      \* return values of the trial controller, in order
  itis,         \* inter-trial intervals begun
  iti           \* measurements of the latest inter-trial interval

vars == <<self, pc, i, elapsed, queue, loc, screen, busy, exc, aborted,
          quits, mixer_quits, saved, records, phases, started, results,
          itis, iti>>

\* What the progress-bar reveal has done so far: the time its loops have
\* taken (time.time() differences, summed), the bars filled, the pauses made.
NoReveal == [time |-> 0, fills |-> 0, pauses |-> 0]

NoLocals ==
  [words |-> 0, actual_prep_time |-> 0, jitter |-> 0,
   dots_left |-> 0, dots_right |-> 0, last_dot_time |-> 0,
   green_count |-> 0, word_idx |-> 0, completed_bars |-> {},
   reveal |-> NoReveal]

\* What one frame shows: green is the set of word positions drawn in green.
Frame(text, green, square, dl, dr, bars, cur, fill, cross) ==
  [text |-> text, green |-> green, square |-> square,
   dots_left |-> dl, dots_right |-> dr,
   bars |-> bars, cur |-> cur, fill |-> fill, cross |-> cross]

Blank == Frame("none", {}, "none", 0, 0, {}, -1, 0, FALSE)

NoIti == [blank |-> 0, cross |-> 0, frames |-> 0]

Final == {"finally", "returned", "raised"}

Init ==
  /\ self \in Paradigms
  /\ pc = "for"
  /\ i = 0
  /\ elapsed = 0
  /\ queue = <<>>
  /\ loc = NoLocals
  /\ screen = Blank
  /\ busy = FALSE
  /\ exc = FALSE
  /\ aborted = FALSE
  /\ quits = 0
  /\ mixer_quits = 0
  /\ saved = 0
  /\ records = <<>>
  /\ phases = <<>>
  /\ started = <<>>
  /\ results = <<>>
  /\ itis = 0
  /\ iti = NoIti

\* Variables that no frame of a phase loop writes.
Fixed == <<self, i, exc, mixer_quits, saved, records, started>>

\* ------------------------------------------------------- pieces of run()
\* A loop that hands out the item it has just presented once more.
next_item_again(k) == IF k = 0 THEN 1 ELSE k

\* enumerate(self.sentences): the item taken by the iteration after k others
next_item(k) == k + 1

\* A run() that does not look at what the trial controller returned.
run_continues_always(ok) == TRUE

\* "if not self.display_sentence(sentence): return" (main.py: break)
run_continues(ok) == ok

\* A cross phase that lasts the whole interval instead of its remainder.
cross_duration_whole(interval) == interval

\* "while time.time() - cross_start < (self.inter_sentence_interval - 0.5)"
cross_duration(interval) == interval - BlackTime

\* Loop conditions written with <= : a phase of duration 0 draws a frame.
LoopContinues_inclusive ==
  CASE pc = "prep_square" -> elapsed <= loc.actual_prep_time
    [] pc = "prep_dots"   -> loc.dots_left > 0 \/ loc.dots_right > 0
    [] pc = "green"       -> loc.green_count <= loc.words
    [] pc = "progress"    -> elapsed <= self.progress_duration
    [] pc = "pause"       -> self.file = "main" \/ elapsed < self.progress_pause
    [] pc = "hold"        -> self.file = "main" \/ elapsed < HoldTime
    [] pc = "red_cue"     -> elapsed <= loc.actual_prep_time
    [] pc = "green_cue"   -> elapsed <= loc.jitter
    [] pc = "word"        -> elapsed <= self.word_duration
    [] pc = "audio"       -> busy
    [] pc = "black"       -> self.file = "main" \/ elapsed < BlackTime
    [] pc = "cross"       -> elapsed < cross_duration(self.interval)
    [] OTHER              -> FALSE

\* The condition of the loop (or the pending sleep) that pc stands at.
LoopContinues ==
  CASE pc = "prep_square" -> elapsed < loc.actual_prep_time
    [] pc = "prep_dots"   -> loc.dots_left > 0 \/ loc.dots_right > 0
    [] pc = "green"       -> loc.green_count <= loc.words
    [] pc = "progress"    -> elapsed < self.progress_duration
    [] pc = "pause"       -> self.file = "main" \/ elapsed < self.progress_pause
    [] pc = "hold"        -> self.file = "main" \/ elapsed < HoldTime
    [] pc = "red_cue"     -> elapsed < loc.actual_prep_time
    [] pc = "green_cue"   -> elapsed < loc.jitter
    [] pc = "word"        -> elapsed < self.word_duration
    [] pc = "audio"       -> busy
    [] pc = "black"       -> self.file = "main" \/ elapsed < BlackTime
    [] pc = "cross"       -> elapsed < cross_duration(self.interval)
    [] OTHER              -> FALSE

\* The trial controller returns ok to run(): run() either leaves through
\* finally or blanks the screen and starts the inter-trial interval.
Return(ok) ==
  /\ results' = Append(results, ok)
  /\ loc' = NoLocals
  /\ elapsed' = 0
  /\ IF run_continues(ok)
     THEN /\ pc' = "black"
          /\ screen' = Blank
          /\ itis' = itis + 1
          /\ iti' = NoIti
     ELSE /\ pc' = "finally"
          /\ UNCHANGED <<screen, itis, iti>>

\* ------------------------------------------- pieces of display_sentence
\* "Hold final state for 0.5 seconds"
EnterHold(l, ph) ==
  /\ pc' = "hold"
  /\ elapsed' = 0
  /\ loc' = l
  /\ phases' = Append(ph, "Hold")

\* "Phase 2": if self.play_mode == 'green' ... elif self.play_mode == 'progress'
EnterReveal(l, ph) ==
  IF self.play_mode = "green"
  THEN /\ pc' = "green"
       /\ elapsed' = 0
       /\ \E j \in Uniform(self.jitter_mean - self.jitter_std,
                           self.jitter_mean + self.jitter_std) :
            loc' = [l EXCEPT !.green_count = 0, !.jitter = j]
       /\ phases' = Append(ph, "Reveal")
  ELSE IF self.play_mode = "progress"
  THEN /\ pc' = "progress"
       /\ elapsed' = 0
       /\ loc' = [l EXCEPT !.word_idx = 0, !.completed_bars = {}]
       /\ phases' = Append(ph, "Reveal")
  ELSE EnterHold(l, ph)

\* The head of the trial controller, up to its first loop.
StartTrial(item) ==
  IF self.cls = "Sentence"
  THEN LET l == [NoLocals EXCEPT !.words = item] IN
       IF self.prep_mode = "square"
       THEN /\ pc' = "prep_square"
            /\ elapsed' = 0
            /\ \E s \in Uniform(self.prep_time - self.prep_time_jitter,
                                self.prep_time + self.prep_time_jitter) :
                 loc' = [l EXCEPT !.actual_prep_time = s]
            /\ phases' = <<"Preparation">>
       ELSE IF self.prep_mode = "dots"
       THEN /\ pc' = "prep_dots"
            /\ elapsed' = 0
            /\ loc' = [l EXCEPT !.dots_left = total_dots,
                                !.dots_right = total_dots,
                                !.last_dot_time = 0]
            /\ phases' = <<"Preparation">>
       ELSE EnterReveal(l, <<>>)
  ELSE /\ pc' = "red_cue"
       /\ elapsed' = 0
       /\ \E s \in Uniform(self.prep_time - self.prep_time_jitter,
                           self.prep_time + self.prep_time_jitter),
             j \in Uniform(self.jitter_mean - self.jitter_std,
                           self.jitter_mean + self.jitter_std) :
            loc' = [NoLocals EXCEPT !.words = item,
                                    !.actual_prep_time = s, !.jitter = j]
       /\ phases' = <<"RedCue">>

\* One body of a trial loop that has passed its loop condition: poll the
\* events, then present frame, leave the locals as l2 and wait for the tick.
TrialFrame(frame, l2) ==
  /\ queue' = <<>>
  /\ IF PollAborts(self.file, queue)
     THEN /\ aborted' = TRUE
          /\ Return(FALSE)
          /\ UNCHANGED phases
     ELSE /\ screen' = frame
          /\ loc' = l2
          /\ \E d \in FrameTimes : elapsed' = elapsed + d
          /\ UNCHANGED <<pc, phases, results, itis, iti, aborted>>
  /\ UNCHANGED <<busy, quits>>
  /\ UNCHANGED Fixed

\* What a step that only moves on to the next loop leaves alone.
Moved == <<queue, screen, results, itis, iti, aborted, busy, quits>>

\* A reveal that draws the green square whatever the preparation mode.
Indicator_always == "green"

\* "Draw green square only in square mode": if self.prep_mode == 'square'
Indicator == IF self.prep_mode = "square" THEN "green" ELSE "none"

\* ---------------------------------------------------------------- run()
run_for ==
  /\ pc = "for"
  /\ IF i < Len(self.items)
     THEN /\ i' = i + 1
          /\ started' = Append(started, next_item(i))
          /\ StartTrial(self.items[next_item(i)])
     ELSE /\ pc' = "finally"
          /\ UNCHANGED <<i, started, elapsed, loc, phases>>
  /\ UNCHANGED <<self, queue, screen, busy, exc, aborted, quits,
                 mixer_quits, saved, records, results, itis, iti>>

\* --------------------------------------------------- display_sentence()
\* A preparation loop that draws its duration anew in every frame.
PrepSquareFrame_resamples ==
  /\ pc = "prep_square"
  /\ IF LoopContinues
     THEN \E s \in Uniform(self.prep_time - self.prep_time_jitter,
                           self.prep_time + self.prep_time_jitter) :
            TrialFrame(Frame("sentence", {}, "red", 0, 0, {}, -1, 0, FALSE),
                       [loc EXCEPT !.actual_prep_time = s])
     ELSE /\ EnterReveal(loc, phases)
          /\ UNCHANGED Moved
          /\ UNCHANGED Fixed

PrepSquareFrame ==
  /\ pc = "prep_square"
  /\ IF LoopContinues
     THEN TrialFrame(Frame("sentence", {}, "red", 0, 0, {}, -1, 0, FALSE), loc)
     ELSE /\ EnterReveal(loc, phases)
          /\ UNCHANGED Moved
          /\ UNCHANGED Fixed

\* A removal that takes a dot from the left side only.
RemoveDots_left_only(l) ==
  IF elapsed - l.last_dot_time >= self.dot_interval
  THEN [l EXCEPT !.dots_left = IF @ > 0 THEN @ - 1 ELSE @,
                 !.last_dot_time = elapsed]
  ELSE l

\* "if elapsed_since_last >= self.dot_interval": one dot less on each side
RemoveDots(l) ==
  IF elapsed - l.last_dot_time >= self.dot_interval
  THEN [l EXCEPT !.dots_left = IF @ > 0 THEN @ - 1 ELSE @,
                 !.dots_right = IF @ > 0 THEN @ - 1 ELSE @,
                 !.last_dot_time = elapsed]
  ELSE l

PrepDotsFrame ==
  /\ pc = "prep_dots"
  /\ IF LoopContinues
     THEN LET l2 == RemoveDots(loc) IN
          TrialFrame(Frame("sentence", {}, "none", l2.dots_left, l2.dots_right,
                           {}, -1, 0, FALSE), l2)
     ELSE /\ EnterReveal(loc, phases)
          /\ UNCHANGED Moved
          /\ UNCHANGED Fixed

\* A count that leaves out the "+ 1": the first word waits one more period.
GreenCount_late(l) ==
  LET g == IF elapsed < l.jitter THEN 0
           ELSE (elapsed - l.jitter) \div self.char_speed
  IN  IF g > l.words THEN l.words ELSE g

\* A count that does not wait for the start delay.
GreenCount_no_delay(l) ==
  LET g == (elapsed \div self.char_speed) + 1
  IN  IF g > l.words THEN l.words ELSE g

\* "green_count = int((elapsed - jitter) / self.char_speed) + 1", clamped
GreenCount(l) ==
  LET g == IF elapsed < l.jitter THEN 0
           ELSE ((elapsed - l.jitter) \div self.char_speed) + 1
  IN  IF g > l.words THEN l.words ELSE g

\* A drawing loop that colours only the word that has just turned.
Highlighted_current(g, n) == {k \in 1..n : k = g}

\* "color = self.GREEN if i < green_count else self.WHITE", i from 0
Highlighted(g, n) == {k \in 1..n : k - 1 < g}

\* A break taken one word early.
reveal_done_early(g, n) == g >= n - 1

\* "if green_count >= len(words): break"
reveal_done(g, n) == g >= n

\* The loop ends by "break" after the frame that shows every word green.
RevealGreenFrame ==
  /\ pc = "green"
  /\ LoopContinues
  /\ queue' = <<>>
  /\ IF PollAborts(self.file, queue)
     THEN /\ aborted' = TRUE
          /\ Return(FALSE)
          /\ UNCHANGED phases
     ELSE LET g == GreenCount(loc) IN
          /\ screen' = Frame("sentence", Highlighted(g, loc.words), Indicator,
                              0, 0, {}, -1, 0, FALSE)
          /\ IF reveal_done(g, loc.words)
             THEN EnterHold([loc EXCEPT !.green_count = g], phases)
             ELSE /\ loc' = [loc EXCEPT !.green_count = g]
                  /\ \E d \in FrameTimes : elapsed' = elapsed + d
                  /\ UNCHANGED <<pc, phases>>
          /\ UNCHANGED <<results, itis, iti, aborted>>
  /\ UNCHANGED <<busy, quits>>
  /\ UNCHANGED Fixed

\* A loop over the words that pauses after the last word as well.
pause_follows_every(word_idx, n) == TRUE

\* "Pause between words (except after last word)": if word_idx < len(words) - 1
pause_follows(word_idx, n) == word_idx < n - 1

\* A fill computed without the min(): elapsed / self.progress_duration
Progress_unclamped(t) == t

\* "progress = min(1.0, elapsed / self.progress_duration)", as the numerator
Progress(t) == Min(self.progress_duration, t)

\* A fill loop that forgets to add the bar it has completed.
completed_bars_forgotten(bars, word_idx) == bars

\* completed_bars.append((word_idx, word_x, int(word_width * 0.99)))
completed_bars_append(bars, word_idx) == bars \cup {word_idx}

ProgressFillFrame ==
  /\ pc = "progress"
  /\ IF LoopContinues
     THEN \* the loop condition reads the clock before the poll, the body
          \* reads it again after the poll, late by less than the frame
          /\ queue' = <<>>
          /\ IF PollAborts(self.file, queue)
             THEN /\ aborted' = TRUE
                  /\ Return(FALSE)
                  /\ UNCHANGED phases
             ELSE /\ \E d \in FrameTimes :
                       /\ elapsed' = elapsed + d
                       /\ \E late \in 0..(d - 1) :
                            screen' = Frame("sentence", {}, Indicator, 0, 0,
                                            loc.completed_bars, loc.word_idx,
                                            Progress(elapsed + late), FALSE)
                  /\ UNCHANGED <<pc, loc, phases, results, itis, iti, aborted>>
          /\ UNCHANGED <<busy, quits>>
          /\ UNCHANGED Fixed
     ELSE LET l2 == [loc EXCEPT !.completed_bars =
                                   completed_bars_append(@, loc.word_idx),
                                !.reveal.time = @ + elapsed,
                                !.reveal.fills = @ + 1] IN
          /\ IF pause_follows(loc.word_idx, loc.words)
             THEN /\ pc' = "pause"
                  /\ elapsed' = 0
                  /\ loc' = l2
                  /\ UNCHANGED phases
             ELSE EnterHold(l2, phases)
          /\ UNCHANGED Moved
          /\ UNCHANGED Fixed

\* The pause has taken t: the for loop over the words takes the next word.
NextWord(t) ==
  /\ pc' = "progress"
  /\ elapsed' = 0
  /\ loc' = [loc EXCEPT !.word_idx = @ + 1,
                        !.reveal.time = @ + t,
                        !.reveal.pauses = @ + 1]
  /\ UNCHANGED phases
  /\ UNCHANGED Moved
  /\ UNCHANGED Fixed

\* main_en.py: the pause between two bars polls the events every frame
ProgressPauseFrame ==
  /\ pc = "pause"
  /\ self.file = "main_en"
  /\ IF LoopContinues THEN TrialFrame(screen, loc) ELSE NextWord(elapsed)

\* main.py: time.sleep(self.progress_pause)
ProgressPauseSleep ==
  /\ pc = "pause"
  /\ self.file = "main"
  /\ NextWord(self.progress_pause)

\* A hold that draws the final state again, with every completed bar.
HoldFrame_redraws ==
  /\ pc = "hold"
  /\ self.file = "main_en"
  /\ IF LoopContinues
     THEN TrialFrame(Frame("sentence", screen.green, Indicator, 0, 0,
                           loc.completed_bars, -1, 0, FALSE), loc)
     ELSE /\ Return(TRUE)
          /\ UNCHANGED <<queue, aborted, busy, quits, phases>>
          /\ UNCHANGED Fixed

\* main_en.py: the hold polls the events every frame
HoldFrame ==
  /\ pc = "hold"
  /\ self.file = "main_en"
  /\ IF LoopContinues
     THEN TrialFrame(screen, loc)
     ELSE /\ Return(TRUE)
          /\ UNCHANGED <<queue, aborted, busy, quits, phases>>
          /\ UNCHANGED Fixed

\* main.py: time.sleep(0.5); return True
HoldSleep ==
  /\ pc = "hold"
  /\ self.file = "main"
  /\ Return(TRUE)
  /\ UNCHANGED <<queue, aborted, busy, quits, phases>>
  /\ UNCHANGED Fixed

\* ------------------------------------------- display_word(), play_audio()
\* A first phase that starts the clip as soon as the red cue is over.
RedCueFrame_starts_clip ==
  /\ pc = "red_cue"
  /\ IF LoopContinues
     THEN TrialFrame(Frame("none", {}, "red", 0, 0, {}, -1, 0, FALSE), loc)
     ELSE /\ pc' = "green_cue"
          /\ elapsed' = 0
          /\ phases' = Append(phases, "GreenCueDelay")
          /\ busy' = (self.cls = "Listening")
          /\ UNCHANGED <<loc, queue, screen, results, itis, iti, aborted, quits>>
          /\ UNCHANGED Fixed

\* "Phase 1: Preparation phase (red square, no word)"
RedCueFrame ==
  /\ pc = "red_cue"
  /\ IF LoopContinues
     THEN TrialFrame(Frame("none", {}, "red", 0, 0, {}, -1, 0, FALSE), loc)
     ELSE /\ pc' = "green_cue"
          /\ elapsed' = 0
          /\ phases' = Append(phases, "GreenCueDelay")
          /\ UNCHANGED loc
          /\ UNCHANGED Moved
          /\ UNCHANGED Fixed

\* A second phase that already draws the stimulus word above the square.
GreenCueFrame_with_word ==
  /\ pc = "green_cue"
  /\ IF LoopContinues
     THEN TrialFrame(Frame("word", {}, "green", 0, 0, {}, -1, 0, FALSE), loc)
     ELSE /\ IF self.cls = "Reading"
             THEN /\ pc' = "word"
                  /\ elapsed' = 0
                  /\ phases' = Append(phases, "WordDisplay")
                  /\ UNCHANGED <<loc, busy, screen, results, itis, iti>>
             ELSE \/ /\ pc' = "audio"
                     /\ elapsed' = 0
                     /\ busy' = TRUE
                     /\ phases' = Append(phases, "AudioPlayback")
                     /\ UNCHANGED <<loc, screen, results, itis, iti>>
                  \/ /\ Return(FALSE)
                     /\ UNCHANGED <<busy, phases>>
          /\ UNCHANGED <<queue, aborted, quits>>
          /\ UNCHANGED Fixed

\* "Phase 2: Green square without word (jitter delay)"; on leaving the loop
\* play_audio loads and starts the clip inside its try block.
GreenCueFrame ==
  /\ pc = "green_cue"
  /\ IF LoopContinues
     THEN TrialFrame(Frame("none", {}, "green", 0, 0, {}, -1, 0, FALSE), loc)
     ELSE /\ IF self.cls = "Reading"
             THEN /\ pc' = "word"
                  /\ elapsed' = 0
                  /\ phases' = Append(phases, "WordDisplay")
                  /\ UNCHANGED <<loc, busy, screen, results, itis, iti>>
             ELSE \/ /\ pc' = "audio"
                     /\ elapsed' = 0
                     /\ busy' = TRUE
                     /\ phases' = Append(phases, "AudioPlayback")
                     /\ UNCHANGED <<loc, screen, results, itis, iti>>
                  \/ /\ Return(FALSE)     \* load or play raised: except
                     /\ UNCHANGED <<busy, phases>>
          /\ UNCHANGED <<queue, aborted, quits>>
          /\ UNCHANGED Fixed

\* A word phase that leaves the red square of the first phase on screen.
word_square_red == "red"

\* "Draw green square": self.draw_green_square(word_y)
word_square == "green"

\* "Phase 3: Display word with green square for word_duration"
WordFrame ==
  /\ pc = "word"
  /\ IF LoopContinues
     THEN TrialFrame(Frame("word", {}, word_square, 0, 0, {}, -1, 0, FALSE),
                     loc)
     ELSE /\ Return(TRUE)
          /\ UNCHANGED <<queue, aborted, busy, quits, phases>>
          /\ UNCHANGED Fixed

\* An exit branch that returns without stopping the music.
music_stop_missing(playing) == playing

\* pygame.mixer.music.stop(): get_busy() is False afterwards
music_stop(playing) == FALSE

\* A playback phase that shows one frame and returns, playing or not.
AudioFrame_one_frame ==
  /\ pc = "audio"
  /\ IF busy /\ elapsed = 0
     THEN /\ queue' = <<>>
          /\ IF PollAborts(self.file, queue)
             THEN /\ busy' = music_stop(busy)
                  /\ aborted' = TRUE
                  /\ Return(FALSE)
                  /\ UNCHANGED phases
             ELSE /\ elapsed < MaxClip
                  /\ screen' = Frame("none", {}, "green", 0, 0, {}, -1, 0, FALSE)
                  /\ \E d \in FrameTimes : elapsed' = elapsed + d
                  /\ UNCHANGED <<pc, loc, phases, results, itis, iti,
                                 aborted, busy>>
     ELSE /\ Return(TRUE)
          /\ UNCHANGED <<queue, aborted, busy, phases>>
  /\ UNCHANGED quits
  /\ UNCHANGED Fixed

\* "while pygame.mixer.music.get_busy()": an exit event stops the music
AudioFrame ==
  /\ pc = "audio"
  /\ IF LoopContinues
     THEN /\ queue' = <<>>
          /\ IF PollAborts(self.file, queue)
             THEN /\ busy' = music_stop(busy)
                  /\ aborted' = TRUE
                  /\ Return(FALSE)
                  /\ UNCHANGED phases
             ELSE /\ elapsed < MaxClip
                  /\ screen' = Frame("none", {}, "green", 0, 0, {}, -1, 0, FALSE)
                  /\ \E d \in FrameTimes : elapsed' = elapsed + d
                  /\ UNCHANGED <<pc, loc, phases, results, itis, iti,
                                 aborted, busy>>
     ELSE /\ Return(TRUE)
          /\ UNCHANGED <<queue, aborted, busy, phases>>
  /\ UNCHANGED quits
  /\ UNCHANGED Fixed

\* A pygame call of a frame raises after the frame's poll found no exit
\* event.  In play_audio's third phase "except Exception" turns it into
\* return False; everywhere else it leaves run() through finally.
RenderPhases == {"prep_square", "prep_dots", "green", "progress",
                 "red_cue", "green_cue", "word", "audio"}

FrameRaises ==
  /\ pc \in RenderPhases
  /\ LoopContinues
  /\ ~PollAborts(self.file, queue)
  /\ queue' = <<>>
  /\ IF pc = "audio"
     THEN /\ Return(FALSE)
          /\ UNCHANGED exc
     ELSE /\ exc' = TRUE
          /\ pc' = "finally"
          /\ loc' = NoLocals
          /\ elapsed' = 0
          /\ UNCHANGED <<screen, results, itis, iti>>
  /\ UNCHANGED <<self, i, mixer_quits, saved, records, started, phases,
                 aborted, busy, quits>>

\* ------------------------------------------- the inter-trial interval
\* The black screen is over: "if self.inter_sentence_interval > 0.5"
AfterBlack(t) ==
  /\ iti' = [iti EXCEPT !.blank = t]
  /\ elapsed' = 0
  /\ pc' = IF self.interval > BlackTime THEN "cross" ELSE "for"
  /\ UNCHANGED <<queue, aborted, screen>>

\* main_en.py: "while time.time() - black_start < 0.5" polls every frame
BlackFrame ==
  /\ pc = "black"
  /\ self.file = "main_en"
  /\ IF LoopContinues
     THEN /\ queue' = <<>>
          /\ IF PollAborts(self.file, queue)
             THEN /\ aborted' = TRUE
                  /\ pc' = "finally"
                  /\ UNCHANGED elapsed
             ELSE /\ \E d \in FrameTimes : elapsed' = elapsed + d
                  /\ UNCHANGED <<pc, aborted>>
          /\ UNCHANGED <<iti, screen>>
     ELSE AfterBlack(elapsed)
  /\ UNCHANGED <<loc, busy, quits, phases, results, itis>>
  /\ UNCHANGED Fixed

\* main.py: time.sleep(0.5)
BlackSleep ==
  /\ pc = "black"
  /\ self.file = "main"
  /\ AfterBlack(BlackTime)
  /\ UNCHANGED <<loc, busy, quits, phases, results, itis>>
  /\ UNCHANGED Fixed

\* pygame.quit() calls the abort branch of the cross loop makes itself
cross_abort_quits(file) == IF file = "main" THEN 1 ELSE 0

\* "Remaining time: white cross in center"
CrossFrame ==
  /\ pc = "cross"
  /\ IF LoopContinues
     THEN /\ queue' = <<>>
          /\ IF PollAborts(self.file, queue)
             THEN /\ aborted' = TRUE
                  /\ quits' = quits + cross_abort_quits(self.file)
                  /\ pc' = "finally"
                  /\ UNCHANGED <<elapsed, screen, iti>>
             ELSE /\ screen' = Frame("none", {}, "none", 0, 0, {}, -1, 0, TRUE)
                  /\ iti' = [iti EXCEPT !.frames = @ + 1]
                  /\ \E d \in FrameTimes : elapsed' = elapsed + d
                  /\ UNCHANGED <<pc, aborted, quits>>
     ELSE /\ iti' = [iti EXCEPT !.cross = elapsed]
          /\ elapsed' = 0
          /\ pc' = "for"
          /\ UNCHANGED <<queue, aborted, screen, quits>>
  /\ UNCHANGED <<loc, busy, phases, results, itis>>
  /\ UNCHANGED Fixed

\* A finally block that releases the display only.
Finally_display_only ==
  /\ pc = "finally"
  /\ quits' = quits + 1
  /\ pc' = IF exc THEN "raised" ELSE "returned"
  /\ UNCHANGED <<self, i, elapsed, queue, loc, screen, exc, aborted, saved,
                 records, phases, started, results, itis, iti, mixer_quits,
                 busy>>

\* "finally: pygame.quit()" (ListeningParadigm: pygame.mixer.quit() first)
Finally ==
  /\ pc = "finally"
  /\ quits' = quits + 1
  /\ mixer_quits' = IF self.cls = "Listening" THEN mixer_quits + 1
                    ELSE mixer_quits
  /\ busy' = IF self.cls = "Listening" THEN FALSE ELSE busy
  /\ pc' = IF exc THEN "raised" ELSE "returned"
  /\ UNCHANGED <<self, i, elapsed, queue, loc, screen, exc, aborted, saved,
                 records, phases, started, results, itis, iti>>

\* ------------------------------------------------------- the environment
\* The window system posts an event.
EventArrives ==
  /\ pc \notin Final
  /\ Len(queue) < MaxQueue
  /\ \E e \in Events : queue' = Append(queue, e)
  /\ UNCHANGED <<self, pc, i, elapsed, loc, screen, busy, exc, aborted,
                 quits, mixer_quits, saved, records, phases, started,
                 results, itis, iti>>

\* The mixer reaches the end of the clip.
ClipEnds ==
  /\ pc = "audio"
  /\ busy
  /\ busy' = FALSE
  /\ UNCHANGED <<self, pc, i, elapsed, queue, loc, screen, exc, aborted,
                 quits, mixer_quits, saved, records, phases, started,
                 results, itis, iti>>

Next ==
  \/ run_for
  \/ PrepSquareFrame
  \/ PrepDotsFrame
  \/ RevealGreenFrame
  \/ ProgressFillFrame
  \/ ProgressPauseFrame
  \/ ProgressPauseSleep
  \/ HoldFrame
  \/ HoldSleep
  \/ RedCueFrame
  \/ GreenCueFrame
  \/ WordFrame
  \/ AudioFrame
  \/ FrameRaises
  \/ BlackFrame
  \/ BlackSleep
  \/ CrossFrame
  \/ Finally
  \/ EventArrives
  \/ ClipEnds

Spec == Init /\ [][Next]_vars

\* ===================================================================
\* run() while no exit signal arrives
\* ===================================================================
\* The window system posts an event that is no exit signal: a key other
\* than Escape.
OtherKeyArrives ==
  /\ pc \notin Final
  /\ Len(queue) < MaxQueue
  /\ queue' = Append(queue, K_OTHER)
  /\ UNCHANGED <<self, pc, i, elapsed, loc, screen, busy, exc, aborted,
                 quits, mixer_quits, saved, records, phases, started,
                 results, itis, iti>>

\* The steps the program takes itself.
Program ==
  \/ run_for
  \/ PrepSquareFrame
  \/ PrepDotsFrame
  \/ RevealGreenFrame
  \/ ProgressFillFrame
  \/ ProgressPauseFrame
  \/ ProgressPauseSleep
  \/ HoldFrame
  \/ HoldSleep
  \/ RedCueFrame
  \/ GreenCueFrame
  \/ WordFrame
  \/ AudioFrame
  \/ FrameRaises
  \/ BlackFrame
  \/ BlackSleep
  \/ CrossFrame
  \/ Finally

NextUndisturbed ==
  \/ Program
  \/ OtherKeyArrives
  \/ ClipEnds

\* The interpreter keeps running and every frame takes time, so the program
\* always takes its next step; the mixer ends every clip it has started.
Undisturbed ==
  /\ Init
  /\ [][NextUndisturbed]_vars
  /\ WF_vars(Program)
  /\ WF_vars(ClipEnds)

\* ===================================================================
\* __init__: from the constructor's arguments to the object run() works on
\* ===================================================================
\* A stimulus file: missing, or its lines, each the number of words on it
\* (0: a blank line).
StimulusFiles ==
  {[exists |-> FALSE, lines |-> <<>>]}
  \cup {[exists |-> TRUE, lines |-> l] :
          l \in UNION {[1..n -> 0..MaxWords] : n \in 0..MaxLines}}

\* An audio folder: the files glob finds in it, numbered from 1 (none when
\* the folder is missing).
AudioFolders ==
  {[exists |-> k > 0, lines |-> [j \in 1..k |-> j]] : k \in 0..MaxAudioFiles}

\* "[line.strip() for line in f if line.strip()]"
RECURSIVE NonBlank(_)
NonBlank(lines) ==
  IF lines = <<>> THEN <<>>
  ELSE IF Head(lines) = 0 THEN NonBlank(Tail(lines))
  ELSE <<Head(lines)>> \o NonBlank(Tail(lines))

\* [audio_file] * self.repetitions
Times(audio_file, repetitions) == [j \in 1..repetitions |-> audio_file]

\* A playlist that takes every file once, whatever repetitions says.
RECURSIVE Replicated_once(_, _)
Replicated_once(audio_files, repetitions) ==
  IF audio_files = <<>> THEN <<>>
  ELSE <<Head(audio_files)>> \o Replicated_once(Tail(audio_files), repetitions)

\* "for audio_file in self.audio_files: self.playlist.extend(...)"
RECURSIVE Replicated(_, _)
Replicated(audio_files, repetitions) ==
  IF audio_files = <<>> THEN <<>>
  ELSE Times(Head(audio_files), repetitions)
         \o Replicated(Tail(audio_files), repetitions)

\* The lists that have x put into t at some position.
Insertions(x, t) ==
  {SubSeq(t, 1, k) \o <<x>> \o SubSeq(t, k + 1, Len(t)) : k \in 0..Len(t)}

\* random.shuffle(self.playlist): the list in any order of its elements
RECURSIVE Shuffle(_)
Shuffle(list) ==
  IF list = <<>> THEN {<<>>}
  ELSE UNION {Insertions(Head(list), t) : t \in Shuffle(Tail(list))}

\* The arguments a constructor is called with.
ConstructorCalls ==
  {[cls |-> "Sentence", file |-> f, source |-> src, repetitions |-> 0] :
      f \in {"main", "main_en"}, src \in StimulusFiles}
  \cup {[cls |-> "Reading", file |-> "main_en", source |-> src,
         repetitions |-> 0] : src \in StimulusFiles}
  \cup {[cls |-> "Listening", file |-> "main_en", source |-> src,
         repetitions |-> r] : src \in AudioFolders, r \in 0..MaxRepetitions}

InitNew ==
  /\ self \in ConstructorCalls
  /\ pc = "new"
  /\ i = 0
  /\ elapsed = 0
  /\ queue = <<>>
  /\ loc = NoLocals
  /\ screen = Blank
  /\ busy = FALSE
  /\ exc = FALSE
  /\ aborted = FALSE
  /\ quits = 0
  /\ mixer_quits = 0
  /\ saved = 0
  /\ records = <<>>
  /\ phases = <<>>
  /\ started = <<>>
  /\ results = <<>>
  /\ itis = 0
  /\ iti = NoIti

\* What __init__ leaves alone before it initialises pygame.
Unbuilt == <<i, elapsed, queue, loc, screen, busy, exc, aborted, quits,
             mixer_quits, saved, records, phases, started, results, itis, iti>>

\* open() raises for a missing file; "if not self.audio_files: raise"
SourceRaises(call) ==
  IF call.cls = "Listening" THEN call.source.lines = <<>>
  ELSE ~call.source.exists

\* The first half of __init__: the fields and the stimulus list.
LoadStimuli ==
  /\ pc = "new"
  /\ ~SourceRaises(self)
  /\ pc' = "loaded"
  /\ IF self.cls = "Sentence"
     THEN self' = SentenceParadigm(self.file, NonBlank(self.source.lines),
                                   "square", "green", 2, 3)
     ELSE IF self.cls = "Reading"
     THEN self' = ReadingParadigm(NonBlank(self.source.lines), 1, 3)
     ELSE \E playlist \in
               Shuffle(Replicated(self.source.lines, self.repetitions)) :
            self' = ListeningParadigm(playlist, 3)
                      @@ [audio_files |-> self.source.lines,
                          repetitions |-> self.repetitions]
  /\ UNCHANGED Unbuilt

\* __init__ raises FileNotFoundError or ValueError: no object is created.
ConstructorRaises ==
  /\ pc = "new"
  /\ SourceRaises(self)
  /\ pc' = "config_error"
  /\ UNCHANGED self
  /\ UNCHANGED Unbuilt

\* The second half of __init__: pygame.init(), the display, the fonts.
InitDisplay ==
  /\ pc = "loaded"
  /\ pc' = "for"
  /\ UNCHANGED self
  /\ UNCHANGED Unbuilt

NextNew ==
  \/ LoadStimuli
  \/ ConstructorRaises
  \/ InitDisplay

Construction == InitNew /\ [][NextNew]_vars

\* ===================================================================
\* Claims
\* ===================================================================
\* The trial controller has returned from the latest trial it was given.
TrialReturned == results # <<>> /\ Len(results) = Len(started)

\* Some trial controller call returned failure.
Failed == \E k \in 1..Len(results) : ~results[k]

\* The three exit signals: window close, Escape key, pointer click.
ExitSignals == {QUIT, K_ESCAPE, MOUSEBUTTONDOWN}

\* One of the three exit signals waits in the event queue.
ExitPending == \E k \in 1..Len(queue) : queue[k] \in ExitSignals

\* A step of the program (every one moves pc or the loop's clock), as
\* opposed to a step of the environment.
ProgramStep == pc' # pc \/ elapsed' # elapsed

SentencePhases == {"prep_square", "prep_dots", "green", "progress",
                   "pause", "hold"}

\* The session ran through its whole list: no abort, no failed trial, no
\* exception.
Completed == pc = "returned" /\ ~aborted /\ ~Failed

\* The object was constructed with modes the constructor documents.  The
\* claims after C1 are stated for these, so that what they show does not
\* rest on the phases an undocumented mode leaves out.
Documented ==
  self.prep_mode \in {"square", "dots"} /\ self.play_mode \in {"green", "progress"}

\* C1: a sentence trial that returned success has entered Preparation, then
\* Reveal, then Hold, each exactly once and in that order, whatever
\* prep_mode and play_mode the object was constructed with.
C1_SuccessRanAllPhases ==
  (self.cls = "Sentence" /\ TrialReturned /\ results[Len(results)])
    => phases = <<"Preparation", "Reveal", "Hold">>

\* C2: in a sentence trial, while a phase has not run out, the program's
\* next step with an exit signal pending is the return of failure: the
\* phase is not continued, no later phase starts, the Hold is not waited out.
C2_ExitAbortsAtNextFrame ==
  [][(/\ self.cls = "Sentence"
      /\ pc \in SentencePhases
      /\ LoopContinues
      /\ ExitPending
      /\ ProgramStep
      /\ ~exc')
     => (results' = Append(results, FALSE) /\ pc' = "finally")]_vars

\* C3: a poll never takes one of the three exit signals out of the event
\* queue without aborting: every poll that reads one stops the session.
C3_NoPolledExitIgnored ==
  [][(queue # <<>> /\ queue' = <<>> /\ ExitPending)
     => (aborted' /\ pc' = "finally")]_vars

\* C4: once a trial controller has returned failure the session has stopped:
\* the failed trial is the last one started, no inter-trial interval was
\* begun for it, and no item was given to the controller twice.
C4_FailureStopsSession ==
  Failed =>
    /\ pc \in Final
    /\ ~results[Len(results)]
    /\ \A k \in 1..(Len(results) - 1) : results[k]
    /\ Len(started) = Len(results)
    /\ itis = Len(results) - 1
    /\ \A j, k \in 1..Len(started) : j # k => started[j] # started[k]

C4_Witness ==
  /\ Failed
  /\ pc = "returned"
  /\ Len(started) < Len(self.items)

\* C5: the k-th trial started presents the k-th item of the list under trial
\* id k, so no list position is presented twice, and a session without abort
\* or failure has presented every item.
C5_ItemsInListOrder ==
  /\ i = Len(started)
  /\ Len(started) <= Len(self.items)
  /\ \A k \in 1..Len(started) : started[k] = k
  /\ Completed => Len(started) = Len(self.items)

C5_Witness == Completed /\ Len(started) = MaxItems /\ started[MaxItems] = MaxItems

\* C6: a session of n items that completes without abort has run exactly
\* n - 1 inter-trial intervals.
C6_IntervalsOnlyBetweenTrials ==
  (Documented /\ Completed /\ Len(self.items) > 0)
    => itis = Len(self.items) - 1

\* An inter-trial interval has just run to its end.
ItiDone == pc = "for" /\ itis > 0

\* How far past its duration a loop can run: it is left at the first loop
\* check at or after the duration, less than one frame after the check
\* before it.
Overrun == MaxFrame - 1

ItiShape ==
  /\ iti.blank >= BlackTime
  /\ iti.blank <= BlackTime + Overrun
  /\ IF self.interval > BlackTime
     THEN /\ iti.frames >= 1
          /\ iti.cross >= self.interval - BlackTime
          /\ iti.cross <= self.interval - BlackTime + Overrun
     ELSE iti.frames = 0 /\ iti.cross = 0

\* C7 as stated: a finished inter-trial interval is a black screen of 0.5 s
\* and then, only if the interval exceeds 0.5 s, cross frames for the rest;
\* in all it lasts max(0.5, interval) to within one frame.
C7_WithinOneFrame ==
  (Documented /\ ItiDone) =>
    /\ ItiShape
    /\ iti.blank + iti.cross >= Max(BlackTime, self.interval)
    /\ iti.blank + iti.cross <= Max(BlackTime, self.interval) + MaxFrame

\* C7 as amended: the same, but each of the two loops can overrun by less
\* than one frame, so the interval lasts max(0.5, interval) to within one
\* frame when no cross is shown and to within two frames when it is.
C7_WithinOneFramePerLoop ==
  ItiDone =>
    /\ ItiShape
    /\ iti.blank + iti.cross >= Max(BlackTime, self.interval)
    /\ iti.blank + iti.cross <= Max(BlackTime, self.interval)
         + (IF self.interval > BlackTime THEN 2 * Overrun ELSE Overrun)

C7_Witness ==
  /\ Documented
  /\ ItiDone
  /\ self.interval > BlackTime
  /\ iti.frames >= 1
  /\ iti.blank + iti.cross > self.interval + MaxFrame

\* C8: during the inter-trial interval, black screen or cross, the program's
\* next step with an exit signal pending ends the session, and no further
\* trial is started.
C8_ExitAbortsInterval ==
  [][(/\ Documented
      /\ pc \in {"black", "cross"}
      /\ LoopContinues
      /\ ExitPending
      /\ ProgramStep)
     => (pc' = "finally" /\ started' = started)]_vars

\* C9: when run() has ended, by return or by exception, pygame.quit() has
\* been called exactly once.
C9_QuitExactlyOnce ==
  (Documented /\ pc \in {"returned", "raised"}) => quits = 1

\* C10: when run() has ended, by return or by exception, the record
\* collection has been written exactly once.
C10_SavedExactlyOnce ==
  (Documented /\ pc \in {"returned", "raised"}) => saved = 1

\* run() has ended, by return or by exception.
SessionEnded == pc \in {"returned", "raised"}

\* The trials whose controller returned success.
Successes == {k \in 1..Len(results) : results[k]}

\* C11: when the session has ended the record collection holds exactly one
\* record per trial that completed successfully, in trial order, and none for
\* any other trial.
C11_OneRecordPerCompletedTrial ==
  (Documented /\ SessionEnded) =>
    /\ Len(records) = Cardinality(Successes)
    /\ \A r \in 1..Len(records) : records[r].trial \in Successes
    /\ \A q, r \in 1..Len(records) :
         q < r => records[q].trial < records[r].trial

NonDecreasing(t) == \A j \in 1..(Len(t) - 1) : t[j] <= t[j + 1]

\* C12: every trial that completed has its phase-transition timestamps on
\* record (trial start, preparation onset and offset, stimulus onset and
\* offset, trial end), and they are non-decreasing in that order.
C12_TimestampsNonDecreasing ==
  (Documented /\ SessionEnded) =>
    \A k \in Successes :
      \E r \in 1..Len(records) :
        /\ records[r].trial = k
        /\ Len(records[r].stamps) = 6
        /\ NonDecreasing(records[r].stamps)

\* The loops that run while the sampled preparation time, and the sampled
\* delay, are held in the controller's locals.
PrepSampled == pc \in {"prep_square", "red_cue", "green_cue", "word", "audio"}
DelaySampled == pc \in {"green", "red_cue", "green_cue", "word", "audio"}

InRange(v, center, half_width) ==
  /\ center - half_width <= v
  /\ v <= center + half_width
  /\ v >= 0

\* C13: every sampled duration (preparation time, highlight start delay,
\* word delay, audio delay) lies within half_width of its center and is
\* never negative, also when center < half_width.
C13_SamplesInRangeNonNegative ==
  /\ PrepSampled =>
       InRange(loc.actual_prep_time, self.prep_time, self.prep_time_jitter)
  /\ DelaySampled => InRange(loc.jitter, self.jitter_mean, self.jitter_std)

\* The phases that last a fixed duration, and that duration.
FixedPhases == {"prep_square", "red_cue", "green_cue", "word", "progress"}

PhaseDuration ==
  CASE pc \in {"prep_square", "red_cue"} -> loc.actual_prep_time
    [] pc = "green_cue"                  -> loc.jitter
    [] pc = "word"                       -> self.word_duration
    [] pc = "progress"                   -> self.progress_duration
    [] OTHER                             -> 1

\* What follows each fixed phase in a trial that goes on.
NextPhases ==
  CASE pc = "prep_square" -> {"green", "progress", "hold"}
    [] pc = "red_cue"     -> {"green_cue"}
    [] pc = "green_cue"   -> IF self.cls = "Reading" THEN {"word"} ELSE {"audio"}
    [] pc = "word"        -> {"black"}
    [] pc = "progress"    -> {"pause", "hold"}
    [] OTHER              -> {}

\* A fixed phase of zero or negative duration stands at its loop head.
ZeroPhase == pc \in FixedPhases /\ elapsed = 0 /\ PhaseDuration <= 0

\* C14: the step the program takes from a fixed phase of zero or negative
\* duration draws no frame, polls nothing, and goes on to the next phase
\* (after the word phase: returns success) without failing; and a cross
\* phase of zero or negative duration draws no frame before the next trial.
C14_ZeroDurationPhaseSkipped ==
  [][/\ (ZeroPhase /\ ProgramStep) =>
          /\ pc' \in NextPhases
          /\ queue' = queue
          /\ ~aborted' /\ ~exc'
          /\ screen' = IF pc = "word" THEN Blank ELSE screen
          /\ results' = IF pc = "word" THEN Append(results, TRUE) ELSE results
     /\ (/\ pc = "black"
         /\ pc' \notin {"black", "finally"}
         /\ cross_duration(self.interval) <= 0) =>
          /\ pc' = "for"
          /\ screen' = screen
          /\ iti'.frames = 0]_vars

C14_Witness ==
  /\ self.cls = "Reading"
  /\ self.word_duration = 0
  /\ pc = "word"
  /\ elapsed = 0
  /\ loc.actual_prep_time < 0
  /\ loc.jitter = 0
  /\ screen = Blank
  /\ phases = <<"RedCue", "GreenCueDelay", "WordDisplay">>

\* The dots loop has removed the last pair of dots.
DotsDone == pc = "prep_dots" /\ loc.dots_left = 0 /\ loc.dots_right = 0

\* C15: the dots preparation, counted up to the frame that removes the last
\* pair of dots, lasts 3 * dot_interval to within one frame: the lateness
\* of one removal does not add to that of the next.
C15_DotsLastThreeIntervals ==
  (Documented /\ DotsDone) =>
    /\ loc.last_dot_time >= total_dots * self.dot_interval
    /\ loc.last_dot_time <= total_dots * self.dot_interval + MaxFrame

\* A step of the highlight loop that draws a frame: the loop goes on to its
\* tick, or leaves by "break" into the hold.
GreenFrameDrawn == pc = "green" /\ (elapsed' > elapsed \/ pc' = "hold")

\* C16 as stated: a frame drawn at elapsed time e of the reveal phase shows
\* the N-th word highlighted exactly if e >= d + N * char_speed.
C16_HighlightAfterNPeriods ==
  [][GreenFrameDrawn =>
       \A n \in 1..loc.words :
         (n \in screen'.green) <=>
           (elapsed >= loc.jitter + n * self.char_speed)]_vars

\* C16 as amended: the words a frame drawn at elapsed time e shows
\* highlighted are those whose N-th period has begun, the first one
\* beginning at d: d + N * char_speed <= e + char_speed.
C16_HighlightWithinNthPeriod ==
  [][GreenFrameDrawn =>
       screen'.green =
         {n \in 1..loc.words :
            loc.jitter + n * self.char_speed <= elapsed + self.char_speed}]_vars

C16_Witness ==
  /\ pc = "green"
  /\ loc.words = MaxWords
  /\ screen.text = "sentence"
  /\ screen.green = {}
  /\ elapsed >= loc.jitter
  /\ loc.jitter > 0

\* C17: a frame drawn at elapsed time e of the reveal phase shows the N-th
\* word highlighted exactly if e >= d + (N - 1) * char_speed, so the first
\* frame that shows it is the first one at or after that time.
C17_HighlightAfterNMinusOnePeriods ==
  [][GreenFrameDrawn =>
       \A n \in 1..loc.words :
         (n \in screen'.green) <=>
           (elapsed >= loc.jitter + (n - 1) * self.char_speed)]_vars

C17_Witness ==
  /\ pc = "green"
  /\ loc.words = MaxWords
  /\ screen.text = "sentence"
  /\ screen.green = {1}
  /\ elapsed > loc.jitter

\* C18: from one frame of a trial to the next the highlighted words only
\* grow, and they are always the first m words of the sentence for some m.
C18_HighlightMonotonePrefix ==
  [][(self.cls = "Sentence" /\ results' = results) =>
       /\ screen.green \subseteq screen'.green
       /\ \E m \in 0..MaxWords : screen'.green = 1..m]_vars

C18_Witness ==
  /\ self.play_mode = "green"
  /\ pc = "hold"
  /\ loc.words = MaxWords
  /\ screen.green = 1..MaxWords

\* The progress-bar reveal of a sentence has ended and the hold has begun.
RevealDone ==
  self.cls = "Sentence" /\ self.play_mode = "progress" /\ pc = "hold"

\* n bars of progress_duration and n - 1 pauses of progress_pause
RevealNominal ==
  loc.words * self.progress_duration + (loc.words - 1) * self.progress_pause

\* C19: a progress-bar reveal of n words that was not aborted has filled n
\* bars and paused n - 1 times, after every word but the last, and has
\* lasted n * progress_duration + (n - 1) * progress_pause, each of its
\* loops running over by less than one frame; no pause is made after the
\* last word.
C19_ProgressRevealDuration ==
  /\ RevealDone =>
       /\ loc.reveal.fills = loc.words
       /\ loc.reveal.pauses = loc.words - 1
       /\ loc.reveal.time >= RevealNominal
       /\ loc.reveal.time <= RevealNominal + (2 * loc.words - 1) * Overrun
  /\ pc = "pause" =>
       /\ loc.word_idx < loc.words - 1
       /\ loc.reveal.fills = loc.word_idx + 1
       /\ loc.reveal.pauses = loc.word_idx

C19_Witness ==
  /\ RevealDone
  /\ loc.words = MaxWords
  /\ self.progress_duration > 0
  /\ loc.reveal.pauses = MaxWords - 1
  /\ loc.reveal.time > RevealNominal

\* C20 as stated: no frame that shows the single word draws the cue
\* indicator.
C20_WordShownAlone == screen.text = "word" => screen.square = "none"

\* C20 as amended: every frame that shows the single word draws the green
\* cue indicator with it.
C20_WordShownWithGreenCue ==
  screen.text = "word" => (self.cls = "Reading" /\ screen.square = "green")

C20_Witness == pc = "word" /\ elapsed > 0 /\ screen.text = "word"

IsPrefix(s, t) == Len(s) <= Len(t) /\ \A k \in 1..Len(s) : s[k] = t[k]

ReadingOrder == <<"RedCue", "GreenCueDelay", "WordDisplay">>

\* C21: a single-word trial enters RedCue, GreenCueDelay, WordDisplay in
\* that order and each at most once; no frame of RedCue or GreenCueDelay
\* shows the word; and the step that finds WordDisplay's duration elapsed
\* returns success, with no hold phase.
C21_SingleWordPhases ==
  [][self.cls = "Reading" =>
       /\ IsPrefix(phases', ReadingOrder)
       /\ pc' = "red_cue" => Len(phases') = 1
       /\ pc' = "green_cue" => Len(phases') = 2
       /\ pc' = "word" => Len(phases') = 3
       /\ pc' \in {"red_cue", "green_cue"} => screen'.text # "word"
       /\ pc' # "hold"
       /\ (pc = "word" /\ ~LoopContinues /\ ProgramStep) =>
            (results' = Append(results, TRUE) /\ pc' = "black")]_vars

C21_Witness ==
  /\ self.cls = "Reading"
  /\ self.word_duration > 0
  /\ pc = "black"
  /\ phases = ReadingOrder
  /\ results # <<>>
  /\ results[Len(results)]

\* play_audio has returned failure on an exit signal polled while the clip
\* was playing.
AudioAborted ==
  /\ self.cls = "Listening"
  /\ aborted
  /\ Failed
  /\ phases = <<"RedCue", "GreenCueDelay", "AudioPlayback">>

\* C22: when play_audio has returned on an exit signal seen during
\* AudioPlayback, the clip is no longer playing.
C22_AbortStopsPlayback == AudioAborted => ~busy

C22_Witness == AudioAborted /\ pc = "finally" /\ mixer_quits = 0

\* play_audio has returned failure without any exit signal: the backend
\* raised inside the try block.
PlaybackFailed == self.cls = "Listening" /\ Failed /\ ~aborted

\* C23: when the audio backend has failed, no exception has escaped from
\* play_audio, run() has started no further trial, and once run() has
\* returned the mixer and the display have each been released.
C23_PlaybackErrorStopsSession ==
  PlaybackFailed =>
    /\ ~exc
    /\ pc \in {"finally", "returned"}
    /\ Len(started) = Len(results)
    /\ itis = Len(results) - 1
    /\ pc = "returned" => (mixer_quits = 1 /\ quits = 1 /\ ~busy)

C23_Witness ==
  /\ PlaybackFailed
  /\ pc = "returned"
  /\ phases = <<"RedCue", "GreenCueDelay">>
  /\ Len(started) < Len(self.items)

\* The loops that run for a fixed duration, the cross loop among them.
TimedLoops == FixedPhases \cup {"cross"}

TimedDuration ==
  IF pc = "cross" THEN cross_duration(self.interval) ELSE PhaseDuration

\* C26: every frame of a progress-bar fill is drawn with a fill between 0 and
\* the whole bar (fraction in [0, 1]), and a timed loop whose check finds the
\* elapsed time at or past the duration draws no further frame.
C26_FillFractionBounded ==
  [][/\ screen'.cur >= 0 =>
          (0 <= screen'.fill /\ screen'.fill <= self.progress_duration)
     /\ (pc \in TimedLoops /\ elapsed >= TimedDuration /\ ProgramStep) =>
          /\ pc' # pc
          /\ screen' = IF pc = "word" THEN Blank ELSE screen]_vars

C26_Witness ==
  /\ pc = "progress"
  /\ screen.cur = loc.word_idx
  /\ screen.fill = self.progress_duration
  /\ elapsed >= self.progress_duration

\* C27: in the dots preparation both sides always hold the same number of
\* dots, 3 at the start and never fewer than 0; a frame removes at most one
\* dot from each side; the loop goes on while dots are left and takes no
\* further frame once the last pair has been removed.
C27_DotsRemovedInPairs ==
  [][/\ pc' = "prep_dots" =>
          /\ loc'.dots_left = loc'.dots_right
          /\ loc'.dots_left \in 0..total_dots
     /\ (pc # "prep_dots" /\ pc' = "prep_dots") => loc'.dots_left = total_dots
     /\ (pc = "prep_dots" /\ pc' = "prep_dots") =>
          /\ loc'.dots_left \in {loc.dots_left, loc.dots_left - 1}
          /\ loc'.dots_right \in {loc.dots_right, loc.dots_right - 1}
          /\ elapsed' > elapsed =>
               /\ screen'.dots_left = loc'.dots_left
               /\ screen'.dots_right = loc'.dots_right
     /\ (pc = "prep_dots" /\ loc.dots_left > 0 /\ ProgramStep) =>
          pc' \in {"prep_dots", "finally"}
     /\ (pc = "prep_dots" /\ loc.dots_left = 0 /\ ProgramStep) =>
          (pc' # "prep_dots" /\ screen' = screen)]_vars

C27_Witness ==
  /\ pc \in {"green", "progress"}
  /\ self.prep_mode = "dots"
  /\ elapsed = 0
  /\ screen.text = "sentence"
  /\ screen.dots_left = 0
  /\ screen.dots_right = 0
  /\ screen.green = {}
  /\ screen.cur = -1

\* C28: a frame of the highlight loop drawn before the start delay has
\* elapsed shows no word highlighted, and the loop ends with a frame exactly
\* if that frame shows every word highlighted.
C28_RevealEndsWhenAllHighlighted ==
  [][GreenFrameDrawn =>
       /\ elapsed < loc.jitter => screen'.green = {}
       /\ pc' = "hold" <=> screen'.green = 1..loc.words]_vars

C28_Witness ==
  /\ self.file = "main"
  /\ self.play_mode = "green"
  /\ pc = "hold"
  /\ loc.words = MaxWords
  /\ loc.jitter > 0
  /\ screen.green = 1..loc.words

\* C29: a frame drawn while the bar of word k fills shows the completed bars
\* of exactly the words before k, and during a trial the completed bars on
\* screen only grow.
C29_CompletedBarsAccumulate ==
  [][self.cls = "Sentence" =>
       /\ screen'.cur >= 0 => screen'.bars = 0..(screen'.cur - 1)
       /\ results' = results => screen.bars \subseteq screen'.bars]_vars

C29_Witness ==
  /\ pc = "progress"
  /\ loc.words = MaxWords
  /\ screen.cur = MaxWords - 1
  /\ screen.bars = 0..(MaxWords - 2)
  /\ screen.fill > 0

\* C30: the poll that takes an exit signal out of the queue ends its loop
\* without drawing, and once the session has been aborted nothing more is
\* drawn.
C30_NoDrawAfterExit ==
  [][/\ (Documented /\ queue # <<>> /\ queue' = <<>> /\ ExitPending) =>
          (screen' = screen /\ pc' # pc)
     /\ aborted => screen' = screen]_vars

\* The stimulus source of a constructor call is missing or empty.
SourceEmpty(call) ==
  IF call.cls = "Listening" THEN call.source.lines = <<>>
  ELSE ~call.source.exists \/ NonBlank(call.source.lines) = <<>>

\* C24: a constructor called with a missing or empty stimulus source raises,
\* and does so before it initialises the display; no object with an empty
\* stimulus list comes out of a constructor.
C24_EmptySourceRejected ==
  [][/\ (pc = "new" /\ pc' # "new" /\ SourceEmpty(self)) => pc' = "config_error"
     /\ (pc # "new" /\ pc' # pc) => pc' # "config_error"
     /\ pc' \in {"loaded", "for"} => self'.items # <<>>]_vars

\* Occurrences of x in the list.
Count(x, list) == Cardinality({k \in 1..Len(list) : list[k] = x})

\* The constructor has built a ListeningParadigm.
PlaylistBuilt == self.cls = "Listening" /\ pc \in {"loaded", "for"}

\* C25: the playlist of k clips with repetitions = r has length k * r and
\* holds every clip exactly r times and nothing else.
C25_PlaylistRepeatsEveryClip ==
  PlaylistBuilt =>
    /\ Len(self.items) = Len(self.audio_files) * self.repetitions
    /\ \A k \in 1..Len(self.audio_files) :
         Count(self.audio_files[k], self.items) = self.repetitions
    /\ \A k \in 1..Len(self.items) :
         \E j \in 1..Len(self.audio_files) : self.items[k] = self.audio_files[j]

C25_Witness ==
  /\ PlaylistBuilt
  /\ pc = "for"
  /\ self.audio_files = <<1, 2>>
  /\ self.repetitions = 3
  /\ self.items = <<2, 1, 2, 1, 1, 2>>

\* A step of the playback loop that draws a frame.
AudioFrameDrawn == pc = "audio" /\ elapsed' > elapsed

\* C31: every step of the AudioPlayback phase asks the mixer once: while it
\* reports the clip playing the step draws one frame, the green indicator and
\* nothing else, or ends in failure (exit signal, backend error), never in
\* success; at the first step that finds the clip no longer playing,
\* play_audio returns success without drawing.
C31_PlaybackPolledEachFrame ==
  [][(self.cls = "Listening" /\ pc = "audio" /\ ProgramStep) =>
       /\ busy =>
            /\ results' # Append(results, TRUE)
            /\ \/ /\ AudioFrameDrawn
                  /\ elapsed' <= elapsed + MaxFrame
                  /\ pc' = "audio"
                  /\ results' = results
               \/ results' = Append(results, FALSE) /\ pc' = "finally"
       /\ ~busy =>
            /\ results' = Append(results, TRUE)
            /\ pc' = "black"
            /\ ~AudioFrameDrawn
       /\ AudioFrameDrawn =>
            screen' = Frame("none", {}, "green", 0, 0, {}, -1, 0, FALSE)]_vars

C31_Witness ==
  /\ self.cls = "Listening"
  /\ pc = "audio"
  /\ ~busy
  /\ elapsed > MaxFrame
  /\ screen.square = "green"
  /\ screen.text = "none"

\* run() hands an item to the trial controller.
TrialStarts == pc = "for" /\ pc' \notin {"for", "finally"}

PrepRange == Uniform(self.prep_time - self.prep_time_jitter, self.prep_time + self.prep_time_jitter)

DelayRange == Uniform(self.jitter_mean - self.jitter_std, self.jitter_mean + self.jitter_std)

\* C32: the step that starts a trial finds no sample left in the
\* controller's locals and draws the preparation time; the delay is drawn at
\* the start of the call (word, audio) or when the highlight reveal is entered
\* (sentence), once per call; and no step inside the phase a sample governs
\* changes it.
C32_SamplesDrawnPerTrial ==
  [][/\ TrialStarts =>
          /\ loc = NoLocals
          /\ pc' \in {"prep_square", "red_cue"} =>
               loc'.actual_prep_time \in PrepRange
          /\ pc' = "red_cue" => loc'.jitter \in DelayRange
     /\ (pc' \in {"prep_square", "red_cue"} /\ pc # pc') => TrialStarts
     /\ (pc' = "green" /\ pc # "green") =>
          /\ pc \in {"for", "prep_square", "prep_dots"}
          /\ loc'.jitter \in DelayRange
     /\ (pc \in {"prep_square", "red_cue"} /\ pc' = pc) =>
          loc'.actual_prep_time = loc.actual_prep_time
     /\ (pc \in {"red_cue", "green_cue"} /\ pc' \in {"red_cue", "green_cue"}) =>
          loc'.jitter = loc.jitter
     /\ (pc = "green" /\ pc' = "green") => loc'.jitter = loc.jitter]_vars

C32_Witness ==
  /\ self.cls = "Reading"
  /\ i = 2
  /\ pc = "green_cue"
  /\ elapsed > 0
  /\ loc.actual_prep_time = self.prep_time + self.prep_time_jitter
  /\ loc.jitter = self.jitter_mean + self.jitter_std
  /\ self.jitter_std > 0

\* Every item of the list has been presented and its trial has succeeded.
AllPresented ==
  /\ Len(started) = Len(self.items)
  /\ Len(results) = Len(self.items)
  /\ \A k \in 1..Len(results) : results[k]

\* C33: while no exit signal arrives, the program keeps taking steps and
\* every clip ends, run() comes to its end with the display released; and
\* unless pygame has raised or the mixer has failed to play a clip, it
\* returns after it has presented every item.
C33_RunTerminates ==
  <>(/\ SessionEnded
     /\ quits = 1
     /\ (~exc /\ ~Failed) => (pc = "returned" /\ AllPresented))

C33_Witness ==
  /\ self.cls = "Listening"
  /\ pc = "returned"
  /\ AllPresented
  /\ Len(self.items) = MaxItems
  /\ quits = 1
  /\ mixer_quits = 1
  /\ ~busy

\* C34: in src/main_en.py a poll that reads an exit signal stops the session
\* at that poll; an exit signal that waits while the program takes a step
\* without a poll (a phase ending by timeout, a phase of zero duration being
\* skipped, run() going on to the interval or the next item) stays in the
\* queue, and no such step draws a trial frame: at most run() blanks the
\* screen.
C34_NoExitSignalLost ==
  [][self.file = "main_en" =>
       /\ (queue # <<>> /\ queue' = <<>> /\ ExitPending) =>
            (aborted' /\ pc' = "finally" /\ screen' = screen)
       /\ ExitPending => (ExitPending' \/ (aborted' /\ pc' = "finally"))
       /\ (ExitPending /\ queue' = queue) => screen' \in {screen, Blank}]_vars

C34_Witness ==
  /\ self.cls = "Reading"
  /\ self.word_duration = 0
  /\ aborted
  /\ pc = "finally"
  /\ phases = ReadingOrder
  /\ results = <<TRUE>>
  /\ itis = 1
  /\ elapsed = 0
  /\ screen = Blank

\* The values a step of the program can give to each part of the state other
\* than the event queue and the object itself.
PcValues ==
  {"for", "prep_square", "prep_dots", "green", "progress", "pause", "hold",
   "red_cue", "green_cue", "word", "audio", "black", "cross", "finally",
   "returned", "raised"}

PhaseNames ==
  {"Preparation", "Reveal", "Hold", "RedCue", "GreenCueDelay", "WordDisplay",
   "AudioPlayback"}

ResultsNext == {results, Append(results, TRUE), Append(results, FALSE)}

PhasesNext ==
  {phases} \cup {Append(phases, n) : n \in PhaseNames} \cup {<<n>> : n \in PhaseNames}

ElapsedNext == {0, elapsed} \cup {elapsed + d : d \in FrameTimes}

DotTimeNext == {0, loc.last_dot_time, elapsed}

FillNext == {screen.fill} \cup 0..self.progress_duration

RevealNext ==
  {NoReveal, loc.reveal,
   [loc.reveal EXCEPT !.time = @ + elapsed, !.fills = @ + 1],
   [loc.reveal EXCEPT !.time = @ + elapsed, !.pauses = @ + 1],
   [loc.reveal EXCEPT !.time = @ + self.progress_pause, !.pauses = @ + 1]}

ItiNext ==
  {NoIti, iti, [iti EXCEPT !.frames = @ + 1], [iti EXCEPT !.blank = elapsed],
   [iti EXCEPT !.blank = BlackTime], [iti EXCEPT !.cross = elapsed]}

\* Every step of the program writes values of these sets.
WritesCovered ==
  /\ pc' \in PcValues
  /\ results' \in ResultsNext
  /\ phases' \in PhasesNext
  /\ elapsed' \in ElapsedNext
  /\ screen'.text \in {"none", "sentence", "word"}
  /\ screen'.green \in SUBSET (1..MaxWords)
  /\ screen'.square \in {"none", "red", "green"}
  /\ screen'.dots_left \in 0..total_dots
  /\ screen'.dots_right \in 0..total_dots
  /\ screen'.bars \in SUBSET (0..(MaxWords - 1))
  /\ screen'.cur \in (-1)..(MaxWords - 1)
  /\ screen'.fill \in FillNext
  /\ loc'.words \in 0..MaxWords
  /\ loc'.actual_prep_time \in PrepRange \cup {0}
  /\ loc'.jitter \in DelayRange \cup {0}
  /\ loc'.dots_left \in 0..total_dots
  /\ loc'.dots_right \in 0..total_dots
  /\ loc'.last_dot_time \in DotTimeNext
  /\ loc'.green_count \in 0..MaxWords
  /\ loc'.word_idx \in 0..MaxWords
  /\ loc'.completed_bars \in SUBSET (0..(MaxWords - 1))
  /\ loc'.reveal \in RevealNext
  /\ i' \in {i, i + 1}
  /\ started' \in {started, Append(started, i + 1)}
  /\ itis' \in {itis, itis + 1}
  /\ iti' \in ItiNext
  /\ quits' \in {quits, quits + 1}
  /\ mixer_quits' \in {mixer_quits, mixer_quits + 1}
  /\ saved' = saved
  /\ records' = records
  /\ self' = self

\* What the program's next step can do to run()'s position and outcome ...
NextOutcome ==
  <<[v \in PcValues |-> ENABLED (Program /\ pc' = v)],
    [v \in BOOLEAN |-> ENABLED (Program /\ aborted' = v)],
    [v \in BOOLEAN |-> ENABLED (Program /\ exc' = v)],
    [v \in BOOLEAN |-> ENABLED (Program /\ busy' = v)],
    [v \in ResultsNext |-> ENABLED (Program /\ results' = v)],
    [v \in PhasesNext |-> ENABLED (Program /\ phases' = v)],
    [v \in {i, i + 1} |-> ENABLED (Program /\ i' = v)],
    [v \in {started, Append(started, i + 1)} |-> ENABLED (Program /\ started' = v)],
    [v \in {itis, itis + 1} |-> ENABLED (Program /\ itis' = v)],
    [v \in ItiNext |-> ENABLED (Program /\ iti' = v)],
    [v \in {quits, quits + 1} |-> ENABLED (Program /\ quits' = v)],
    [v \in {mixer_quits, mixer_quits + 1} |-> ENABLED (Program /\ mixer_quits' = v)]>>

\* ... to the frame on screen ...
NextFrame ==
  <<[v \in {"none", "sentence", "word"} |-> ENABLED (Program /\ screen'.text = v)],
    [v \in SUBSET (1..MaxWords) |-> ENABLED (Program /\ screen'.green = v)],
    [v \in {"none", "red", "green"} |-> ENABLED (Program /\ screen'.square = v)],
    [v \in 0..total_dots |-> ENABLED (Program /\ screen'.dots_left = v)],
    [v \in 0..total_dots |-> ENABLED (Program /\ screen'.dots_right = v)],
    [v \in SUBSET (0..(MaxWords - 1)) |-> ENABLED (Program /\ screen'.bars = v)],
    [v \in (-1)..(MaxWords - 1) |-> ENABLED (Program /\ screen'.cur = v)],
    [v \in FillNext |-> ENABLED (Program /\ screen'.fill = v)],
    [v \in BOOLEAN |-> ENABLED (Program /\ screen'.cross = v)]>>

\* ... and to the clock and the locals of the trial controller.
NextLocals ==
  <<[v \in ElapsedNext |-> ENABLED (Program /\ elapsed' = v)],
    [v \in 0..MaxWords |-> ENABLED (Program /\ loc'.words = v)],
    [v \in PrepRange \cup {0} |-> ENABLED (Program /\ loc'.actual_prep_time = v)],
    [v \in DelayRange \cup {0} |-> ENABLED (Program /\ loc'.jitter = v)],
    [v \in 0..total_dots |-> ENABLED (Program /\ loc'.dots_left = v)],
    [v \in 0..total_dots |-> ENABLED (Program /\ loc'.dots_right = v)],
    [v \in DotTimeNext |-> ENABLED (Program /\ loc'.last_dot_time = v)],
    [v \in 0..MaxWords |-> ENABLED (Program /\ loc'.green_count = v)],
    [v \in 0..MaxWords |-> ENABLED (Program /\ loc'.word_idx = v)],
    [v \in SUBSET (0..(MaxWords - 1)) |-> ENABLED (Program /\ loc'.completed_bars = v)],
    [v \in RevealNext |-> ENABLED (Program /\ loc'.reveal = v)]>>

\* C35: a key other than Escape changes nothing but the event queue when it
\* arrives, and what the program's next step can do with it in the queue is
\* what it can do without it, in every part of the state: the same next
\* loops and phases, the same outcome (an abort is never among them), the
\* same frame contents, the same timing.  Two runs that differ only in such
\* events therefore stay in step, equal in all but the queue.
C35_OtherKeysChangeNothing ==
  [][/\ OtherKeyArrives =>
          /\ NextOutcome' = NextOutcome
          /\ NextFrame' = NextFrame
          /\ NextLocals' = NextLocals
     /\ Program => WritesCovered]_vars

C35_Witness ==
  /\ queue = <<K_OTHER>>
  /\ pc = "hold"
  /\ self.file = "main_en"
  /\ elapsed > 0
  /\ results = <<TRUE>>
  /\ screen.green = 1..MaxWords
  /\ loc.words = MaxWords

\* A step of the given loop of display_sentence that draws a frame.
SentenceFrameDrawn(p) ==
  /\ self.cls = "Sentence"
  /\ pc = p
  /\ (elapsed' > elapsed \/ (p = "green" /\ pc' = "hold"))

\* C36: with prep_mode 'square' every frame of the preparation draws the red
\* indicator and every frame of the reveal, highlight or progress bar, the
\* green one (a frame has one indicator at most); with prep_mode 'dots' no
\* frame of a trial draws an indicator, the preparation loop that runs for the
\* sampled prep time is never entered and no prep time is ever sampled, so
\* that prep_time and prep_time_jitter reach no loop condition.
C36_IndicatorFollowsPrepMode ==
  [][/\ self.prep_mode = "square" =>
          /\ SentenceFrameDrawn("prep_square") => screen'.square = "red"
          /\ SentenceFrameDrawn("green") => screen'.square = "green"
          /\ SentenceFrameDrawn("progress") => screen'.square = "green"
          /\ pc' # "prep_dots"
     /\ (self.cls = "Sentence" /\ self.prep_mode = "dots") =>
          /\ screen'.square = "none"
          /\ pc' # "prep_square"
          /\ loc'.actual_prep_time = NoLocals.actual_prep_time
          /\ (pc = "for" /\ pc' \notin {"for", "finally"}) => pc' = "prep_dots"
          /\ (pc = "prep_dots" /\ pc' # "prep_dots" /\ ~aborted' /\ ~exc') =>
               (loc.dots_left = 0 /\ loc.dots_right = 0)]_vars

C36_Witness ==
  /\ self.cls = "Sentence"
  /\ self.prep_mode = "dots"
  /\ self.play_mode = "progress"
  /\ pc = "hold"
  /\ loc.words = MaxWords
  /\ screen.cur = MaxWords - 1
  /\ screen.square = "none"

ListeningOrder == <<"RedCue", "GreenCueDelay", "AudioPlayback">>

\* play_audio loads the clip and starts it.
ClipStarts == pc # "audio" /\ pc' = "audio"

\* C37: in an audio trial the clip is started by one step only, the one that
\* finds the GreenCueDelay elapsed, after the RedCue has run its time; it is
\* started once per trial and only when nothing is playing; while RedCue or
\* GreenCueDelay run, and when either of them is aborted, nothing plays.
C37_ClipStartedOnceAfterCues ==
  [][self.cls = "Listening" =>
       /\ ClipStarts =>
            /\ pc = "green_cue"
            /\ elapsed >= loc.jitter
            /\ ~busy
            /\ busy'
            /\ phases = <<"RedCue", "GreenCueDelay">>
            /\ phases' = ListeningOrder
       /\ (~busy /\ busy') => ClipStarts
       /\ (pc = "red_cue" /\ pc' = "green_cue") => elapsed >= loc.actual_prep_time
       /\ pc' \in {"red_cue", "green_cue"} => ~busy'
       /\ (pc \in {"red_cue", "green_cue"} /\ results' = Append(results, FALSE)) =>
            ~busy'
       /\ IsPrefix(phases', ListeningOrder)]_vars

C37_Witness ==
  /\ self.cls = "Listening"
  /\ i = 2
  /\ pc = "audio"
  /\ busy
  /\ elapsed > 0
  /\ phases = ListeningOrder
  /\ results = <<TRUE>>

\* C38: no step taken in the hold or in a pause between two bars changes the
\* frame on screen (when the trial controller has returned, run() blanks the
\* screen); and a frame of a progress-bar trial never shows a completed bar
\* under the last word: that entry is appended after the last frame of the
\* reveal.
C38_HoldAndPauseDrawNothing ==
  [][/\ pc \in {"hold", "pause"} =>
          \/ screen' = screen
          \/ pc = "hold" /\ pc' = "black" /\ screen' = Blank
     /\ (self.cls = "Sentence" /\ pc' \in SentencePhases) =>
          /\ (loc'.words - 1) \notin screen'.bars
          /\ (pc' = "hold" /\ self.play_mode = "progress") =>
               (loc'.words - 1) \in loc'.completed_bars]_vars

C38_Witness ==
  /\ self.file = "main_en"
  /\ self.play_mode = "progress"
  /\ pc = "hold"
  /\ elapsed > 0
  /\ loc.words = MaxWords
  /\ loc.completed_bars = 0..(MaxWords - 1)
  /\ screen.bars = 0..(MaxWords - 2)
  /\ screen.cur = MaxWords - 1

====
